---------------------------- MODULE Spec2Model ----------------------------
(***************************************************************************)
(* The shadow-register engine of the TDX processor backend                 *)
(* (openhcl/virt_mshv_vtl/src/processor/tdx/virtual_register.rs), the boot *)
(* loader's bump allocator and log buffer (openhcl/openhcl_boot) and the   *)
(* locked-memory mapping (vm/devices/user_driver/src/lockmem.rs).          *)
(*                                                                         *)
(* A u64 is modelled exactly as the set of the positions of its one bits   *)
(* (a subset of 0..63): & is intersection, | is union, ^ is the symmetric  *)
(* difference, ! is the complement in 0..63 and "!= 0" is "# {}".          *)
(***************************************************************************)
EXTENDS Naturals, Sequences, FiniteSets, TLC

\* Width of the register values (u64).
U64_BITS == 64

\* Number of sampled bit positions the written, initial and hardware values
\* range over (the first MaxBits entries of SampleOrder).
MaxBits == 3

VARIABLES
    regs,   \* the bank: one VirtualRegister (or none yet) per (kind, vtl)
    vmcs,   \* the hardware: content of every (vtl, field) slot
    ret,    \* the last call: operation, arguments, result, hardware accesses
    hist,   \* per instance: last accepted value, and which ownership classes
            \* of the physical slot the hardware has changed since
    allocator,  \* the bump allocator's Inner
    aret,       \* the allocator's last call: operation, arguments, outcome
    logb,       \* the LogBuffer: buffer and position
    lret,       \* the log buffer's last call, and the bytes written so far
    mm          \* the process's mapped pages and the last Mapping call

vars == <<regs, vmcs, ret, hist, allocator, aret, logb, lret, mm>>

-----------------------------------------------------------------------------
(* u64 arithmetic *)

AllBits == 0 .. (U64_BITS - 1)

U64_MAX == AllBits

Zero == {}

BitAnd(a, b) == a \cap b

BitOr(a, b) == a \cup b

BitXor(a, b) == (a \ b) \cup (b \ a)

BitNot(a) == AllBits \ a

\* 1 << n
Shl1(n) == {n}

-----------------------------------------------------------------------------
(* x86 control register bits (crate x86defs) *)

X64_CR0_PE == Shl1(0)

X64_CR0_MP == Shl1(1)

X64_CR0_EM == Shl1(2)

X64_CR0_TS == Shl1(3)

X64_CR0_ET == Shl1(4)

X64_CR0_NE == Shl1(5)

X64_CR0_WP == Shl1(16)

X64_CR0_AM == Shl1(18)

X64_CR0_PG == Shl1(31)

X64_CR4_VME == Shl1(0)

X64_CR4_PVI == Shl1(1)

X64_CR4_TSD == Shl1(2)

X64_CR4_DE == Shl1(3)

X64_CR4_PSE == Shl1(4)

X64_CR4_PAE == Shl1(5)

X64_CR4_PGE == Shl1(7)

X64_CR4_PCE == Shl1(8)

X64_CR4_FXSR == Shl1(9)

X64_CR4_XMMEXCPT == Shl1(10)

X64_CR4_UMIP == Shl1(11)

X64_CR4_LA57 == Shl1(12)

X64_CR4_VMXE == Shl1(13)

X64_CR4_RWFSGS == Shl1(16)

X64_CR4_PCIDE == Shl1(17)

X64_CR4_OSXSAVE == Shl1(18)

X64_CR4_SMEP == Shl1(20)

X64_CR4_SMAP == Shl1(21)

X64_CR4_CET == Shl1(23)

-----------------------------------------------------------------------------
(* Register catalog *)

ShadowedRegister == {"Cr0", "Cr4"}

GuestVtl == {"Vtl0", "Vtl1"}

VmcsField == {"VMX_VMCS_GUEST_CR0", "VMX_VMCS_GUEST_CR4",
              "VMX_VMCS_CR0_READ_SHADOW", "VMX_VMCS_CR4_READ_SHADOW"}

name(reg) == IF reg = "Cr0" THEN "cr0" ELSE "cr4"

PhysicalIsShadow(reg) ==
    IF reg = "Cr0" THEN "VMX_VMCS_CR0_READ_SHADOW" ELSE "VMX_VMCS_CR4_READ_SHADOW"

ShadowAlwaysCr0(reg) == "VMX_VMCS_CR0_READ_SHADOW"

ShadowIsPhysical(reg) ==
    IF reg = "Cr0" THEN "VMX_VMCS_GUEST_CR0" ELSE "VMX_VMCS_GUEST_CR4"

physical_vmcs_field(reg) ==
    IF reg = "Cr0" THEN "VMX_VMCS_GUEST_CR0" ELSE "VMX_VMCS_GUEST_CR4"

shadow_vmcs_field(reg) ==
    IF reg = "Cr0" THEN "VMX_VMCS_CR0_READ_SHADOW" ELSE "VMX_VMCS_CR4_READ_SHADOW"

guest_owned_mask(reg) ==
    IF reg = "Cr0"
    THEN X64_CR0_ET \cup X64_CR0_MP \cup X64_CR0_EM \cup X64_CR0_TS
         \cup X64_CR0_WP \cup X64_CR0_AM \cup X64_CR0_PE \cup X64_CR0_PG
    ELSE X64_CR4_VME \cup X64_CR4_PVI \cup X64_CR4_TSD \cup X64_CR4_DE
         \cup X64_CR4_PSE \cup X64_CR4_PAE \cup X64_CR4_PGE \cup X64_CR4_PCE
         \cup X64_CR4_FXSR \cup X64_CR4_XMMEXCPT \cup X64_CR4_UMIP
         \cup X64_CR4_LA57 \cup X64_CR4_RWFSGS \cup X64_CR4_PCIDE
         \cup X64_CR4_OSXSAVE \cup X64_CR4_SMEP \cup X64_CR4_SMAP
         \cup X64_CR4_CET

-----------------------------------------------------------------------------
(* Input values *)

\* Bit positions the inputs are built from, most interesting first: two
\* guest-owned bits, a host-owned bit, then further guest-owned, host-owned
\* and top bits.
SampleOrder(reg) ==
    IF reg = "Cr0"
    THEN <<0, 31, 5, 16, 63, 30>>
    ELSE <<5, 13, 0, 20, 63, 6>>

SampleBits(reg) ==
    LET s == SampleOrder(reg)
        n == IF MaxBits < Len(s) THEN MaxBits ELSE Len(s)
    IN  {s[k] : k \in 1 .. n}

Values(reg) == SUBSET SampleBits(reg)

\* Option<u64>
None == [some |-> FALSE, bits |-> Zero]

Some(m) == [some |-> TRUE, bits |-> m]

\* Legality masks the instances are constructed with: none, the two sampled
\* guest-owned bits (for Cr0: protection-enable | paging), and one
\* guest-owned bit with the sampled host-owned bit.
AllowedMasks(reg) ==
    IF reg = "Cr0"
    THEN {X64_CR0_PE \cup X64_CR0_PG, X64_CR0_PE \cup X64_CR0_NE}
    ELSE {X64_CR4_PAE \cup X64_CR4_VME, X64_CR4_PAE \cup X64_CR4_VMXE}

AllowedChoices(reg) == {None} \cup {Some(m) : m \in AllowedMasks(reg)}

unwrap_or(opt, default) == IF opt.some THEN opt.bits ELSE default

-----------------------------------------------------------------------------
(* Hardware access *)

Slots == GuestVtl \X VmcsField

read_vmcs64(hw, vtl, field) == hw[<<vtl, field>>]

write_vmcs64(hw, vtl, field, mask, value) ==
    [hw EXCEPT ![<<vtl, field>>] =
        BitOr(BitAnd(@, BitNot(mask)), BitAnd(value, mask))]

\* Entries of the access log of one call.
ReadAccess(vtl, field) ==
    [kind |-> "read", vtl |-> vtl, field |-> field, mask |-> Zero, value |-> Zero]

WriteAccess(vtl, field, mask, value) ==
    [kind |-> "write", vtl |-> vtl, field |-> field, mask |-> mask, value |-> value]

-----------------------------------------------------------------------------
(* VirtualRegister *)

Instances == ShadowedRegister \X GuestVtl

\* No instance constructed yet for this (kind, vtl).
NoReg(i) ==
    [live |-> FALSE, register |-> i[1], vtl |-> i[2],
     shadow_value |-> Zero, allowed_bits |-> None]

NewMasked(reg, vtl, initial_value, allowed_bits) ==
    [live |-> TRUE, register |-> reg, vtl |-> vtl,
     shadow_value |-> BitAnd(initial_value, unwrap_or(allowed_bits, U64_MAX)),
     allowed_bits |-> allowed_bits]

VirtualRegister_new(reg, vtl, initial_value, allowed_bits) ==
    [live |-> TRUE, register |-> reg, vtl |-> vtl,
     shadow_value |-> initial_value, allowed_bits |-> allowed_bits]

\* The validation of write: value & !allowed_bits.unwrap_or(u64::MAX) != 0
InvalidAcceptAll(value, allowed_bits) == FALSE

InvalidGuestOnly(value, allowed_bits) ==
    BitAnd(BitAnd(value, guest_owned_mask("Cr0") \cup guest_owned_mask("Cr4")),
           BitNot(unwrap_or(allowed_bits, U64_MAX))) # Zero

InvalidDefaultZero(value, allowed_bits) ==
    BitAnd(value, BitNot(unwrap_or(allowed_bits, Zero))) # Zero

IsInvalid(value, allowed_bits) ==
    BitAnd(value, BitNot(unwrap_or(allowed_bits, U64_MAX))) # Zero

\* (old_physical_reg ^ value) & guest_owned_mask != 0
AlwaysChanged(old_physical_reg, value, mask) == TRUE

GuestBitsChanged(old_physical_reg, value, mask) ==
    BitAnd(BitXor(old_physical_reg, value), mask) # Zero

\* (old_physical_reg & !guest_owned_mask) | (value & guest_owned_mask)
KeepOldPhysical(old_physical_reg, value, mask) == old_physical_reg

OverwritePhysical(old_physical_reg, value, mask) == value

NewPhysicalReg(old_physical_reg, value, mask) ==
    BitOr(BitAnd(old_physical_reg, BitNot(mask)), BitAnd(value, mask))

\* self.shadow_value = value
ShadowKeepsGuestBits(old_shadow, value, mask) ==
    BitOr(BitAnd(old_shadow, BitNot(mask)), BitAnd(value, mask))

NewShadowValue(old_shadow, value, mask) == value

\* The value written to the shadow field: value
ShadowFieldHostOnly(value, mask) == BitAnd(value, BitNot(mask))

ShadowFieldValue(value, mask) == value

\* (self.shadow_value & !guest_owned_mask) | (physical_reg & guest_owned_mask)
ReadShadowOnly(shadow_value, physical_reg, mask) == shadow_value

ReadPhysicalOnly(shadow_value, physical_reg, mask) == physical_reg

ReadValue(shadow_value, physical_reg, mask) ==
    BitOr(BitAnd(shadow_value, BitNot(mask)), BitAnd(physical_reg, mask))

\* The whole of write on instance r against hardware hw: the result, the new
\* instance, the new hardware and the hardware accesses made, in order.
VirtualRegister_write(r, value, hw) ==
    IF IsInvalid(value, r.allowed_bits)
    THEN [res |-> "InvalidValue", val |-> value, name |-> name(r.register),
          reg |-> r, hw |-> hw, log |-> <<>>]
    ELSE
      LET pf == physical_vmcs_field(r.register)
          sf == shadow_vmcs_field(r.register)
          old_physical_reg == read_vmcs64(hw, r.vtl, pf)
          mask == guest_owned_mask(r.register)
          changed == GuestBitsChanged(old_physical_reg, value, mask)
          new_physical_reg == NewPhysicalReg(old_physical_reg, value, mask)
          hw1 == IF changed
                 THEN write_vmcs64(hw, r.vtl, pf, U64_MAX, new_physical_reg)
                 ELSE hw
          log1 == <<ReadAccess(r.vtl, pf)>> \o
                  (IF changed
                   THEN <<WriteAccess(r.vtl, pf, U64_MAX, new_physical_reg)>>
                   ELSE <<>>)
          r2 == [r EXCEPT !.shadow_value = NewShadowValue(@, value, mask)]
          shadow_field == ShadowFieldValue(value, mask)
          hw2 == write_vmcs64(hw1, r.vtl, sf, U64_MAX, shadow_field)
          log2 == log1 \o <<WriteAccess(r.vtl, sf, U64_MAX, shadow_field)>>
      IN  [res |-> "Ok", val |-> Zero, name |-> "",
           reg |-> r2, hw |-> hw2, log |-> log2]

\* The whole of read: the value returned and the hardware accesses made.
VirtualRegister_read(r, hw) ==
    LET pf == physical_vmcs_field(r.register)
        physical_reg == read_vmcs64(hw, r.vtl, pf)
        mask == guest_owned_mask(r.register)
    IN  [val |-> ReadValue(r.shadow_value, physical_reg, mask),
         log |-> <<ReadAccess(r.vtl, pf)>>]

-----------------------------------------------------------------------------
(* BumpAllocator: pointers and layouts *)

\* Width of a pointer (usize) in bits; addresses wrap modulo 2^PtrBits.
PtrBits == 4

PtrMod == 2 ^ PtrBits

\* isize::MAX at this width.
ISIZE_MAX == 2 ^ (PtrBits - 1) - 1

null_mut == 0

wrapping_add(p, n) == (p + n) % PtrMod

\* <*mut u8>::align_offset: bytes to add to p to make it a multiple of align.
align_offset(p, align) == (align - (p % align)) % align

\* core::alloc::Layout: align is a power of two and size, rounded up to a
\* multiple of align, does not exceed isize::MAX.
Aligns == {1, 2, 4}

Layouts ==
    {l \in [size : 0..ISIZE_MAX, align : Aligns] :
        l.size + align_offset(l.size, l.align) <= ISIZE_MAX}

\* The memory ranges init is called with: non-null start, end inside the
\* address space; the longest one ends at the last address.
MemoryRanges ==
    {[start |-> s, len |-> n] :
        s \in {PtrMod \div 4, PtrMod \div 2},
        n \in {PtrMod \div 4, PtrMod \div 2 - 1}}

-----------------------------------------------------------------------------
(* BumpAllocator *)

State == {"Allowed", "Enabled", "Disabled"}

\* BumpAllocator::new
BumpAllocator_new ==
    [start |-> null_mut, next |-> null_mut, end |-> null_mut,
     allow_alloc |-> "Allowed", alloc_count |-> 0]

\* Outcomes of a call on the allocator: it returns (with a pointer, for
\* alloc) or it panics with a message; inner is the state it leaves.
Returns(inner, ptr) ==
    [inner |-> inner, panic |-> "", returned |-> TRUE, ptr |-> ptr]

Panics(inner, msg) ==
    [inner |-> inner, panic |-> msg, returned |-> FALSE, ptr |-> null_mut]

\* BumpAllocator::init
init(inner, mem) ==
    IF inner.start # null_mut
    THEN Panics(inner, "bump allocator memory range previously set")
    ELSE Returns([inner EXCEPT !.start = mem.start,
                               !.next = mem.start,
                               !.end = wrapping_add(mem.start, mem.len)],
                 null_mut)

EnableFromAny(inner) ==
    Returns([inner EXCEPT !.allow_alloc = "Enabled"], null_mut)

\* BumpAllocator::enable_alloc
enable_alloc(inner) ==
    CASE inner.allow_alloc = "Allowed" ->
           Returns([inner EXCEPT !.allow_alloc = "Enabled"], null_mut)
      [] inner.allow_alloc = "Enabled" ->
           Panics(inner, "allocations are already enabled")
      [] inner.allow_alloc = "Disabled" ->
           Panics(inner, "allocations were previously disabled and cannot be re-enabled")

\* BumpAllocator::disable_alloc
disable_alloc(inner) ==
    CASE inner.allow_alloc = "Allowed" ->
           Panics(inner, "allocations were never enabled")
      [] inner.allow_alloc = "Enabled" ->
           Returns([inner EXCEPT !.allow_alloc = "Disabled"], null_mut)
      [] inner.allow_alloc = "Disabled" ->
           Panics(inner, "allocations were previously disabled and cannot be disabled again")

\* BumpAllocator::log_stats: reads next, start, end and alloc_count.
log_stats(inner) == Returns(inner, null_mut)

\* GlobalAlloc::alloc after its state check: bump next past the aligned
\* request, or return null when the request wraps or reaches end.
BumpNext(inner, layout) ==
    LET off == align_offset(inner.next, layout.align)
        alloc_start == wrapping_add(inner.next, off)
        alloc_end == wrapping_add(alloc_start, layout.size)
    IN  IF alloc_end < alloc_start THEN Returns(inner, null_mut)
        ELSE IF alloc_end >= inner.end THEN Returns(inner, null_mut)
        ELSE IF alloc_start % layout.align # 0
             THEN Panics([inner EXCEPT !.next = alloc_end,
                                       !.alloc_count = @ + 1],
                         "assertion failed: alloc_start % align == 0")
        ELSE Returns([inner EXCEPT !.next = alloc_end,
                                   !.alloc_count = @ + 1],
                     alloc_start)

AllocUnchecked(inner, layout) == BumpNext(inner, layout)

\* GlobalAlloc::alloc
alloc(inner, layout) ==
    IF inner.allow_alloc # "Enabled"
    THEN Panics(inner, "allocations are not allowed")
    ELSE BumpNext(inner, layout)

\* GlobalAlloc::dealloc
dealloc(inner, ptr, layout) == Returns(inner, null_mut)

-----------------------------------------------------------------------------
(* LogBuffer *)

\* Size of the circular log buffer in bytes. The source's value is 4096; the
\* ring arithmetic below is the source's, taken at this smaller size.
LOG_BUFFER_SIZE == 4

\* Byte values the written strings are made of.
Bytes == {0, 1, 2}

\* The strings written: every length up to one more than the buffer holds.
MaxWrite == LOG_BUFFER_SIZE + 1

\* Total number of bytes written in a behaviour: the ring wraps twice.
MaxTotal == 2 * LOG_BUFFER_SIZE + 1

Strings == UNION {[1..n -> Bytes] : n \in 0..MaxWrite}

\* LogBuffer::new
LogBuffer_new ==
    [buffer |-> [k \in 0..(LOG_BUFFER_SIZE - 1) |-> 0], position |-> 0]

\* The copy loop of write_to_buffer from the i-th byte of data on
\* (i counts from 1; the source's index is i - 1).
RECURSIVE CopyBytes(_, _, _, _)
CopyBytes(buffer, data, current_pos, i) ==
    IF i > Len(data) THEN buffer
    ELSE CopyBytes([buffer EXCEPT
                      ![(current_pos + (i - 1)) % LOG_BUFFER_SIZE] = data[i]],
                   data, current_pos, i + 1)

PositionUnwrapped(self, data) ==
    IF Len(data) = 0 THEN self
    ELSE [buffer |-> CopyBytes(self.buffer, data, self.position, 1),
          position |-> self.position + Len(data)]

\* LogBuffer::write_to_buffer
write_to_buffer(self, data) ==
    IF Len(data) = 0 THEN self
    ELSE [buffer |-> CopyBytes(self.buffer, data, self.position, 1),
          position |-> (self.position + Len(data)) % LOG_BUFFER_SIZE]

\* LogBuffer::get_position
get_position(self) == self.position

\* LogBuffer::get_raw_buffer
get_raw_buffer(self) == self.buffer

GetBufferUnrotated(self) == self.buffer

\* LogBuffer::get_buffer
get_buffer(self) ==
    [i \in 0..(LOG_BUFFER_SIZE - 1) |->
        self.buffer[(self.position + i) % LOG_BUFFER_SIZE]]

\* <LogBuffer as fmt::Write>::write_str: the buffer it leaves and its result.
write_str(self, s) == [self |-> write_to_buffer(self, s), res |-> "Ok"]

\* The last n elements of sequence s (all of s if it is shorter).
LastN(s, n) ==
    IF Len(s) <= n THEN s ELSE SubSeq(s, Len(s) - n + 1, Len(s))

-----------------------------------------------------------------------------
(* lockmem: Mapping *)

\* Addresses and lengths are counted in pages (mmap returns page-aligned
\* addresses and LockedMemory::new passes page multiples only).
\* size_2m is 2^HugeShift pages: 512 in the source (0x200000 bytes).
HugeShift == 2

size_2m == 2 ^ HugeShift

\* The address space: pages 1 .. AddressPages - 1; MAP_FAILED ((void *) -1)
\* is the value above every address.
AddressPages == 4 * size_2m

MAP_FAILED == AddressPages

PageRange(addr, n) == {a \in 1..(AddressPages - 1) : addr <= a /\ a < addr + n}

\* The addresses mmap(NULL, n, ...) can return over the mappings `mapped`:
\* the start of any free range of n pages (aligned to size_2m with
\* MAP_HUGETLB), or MAP_FAILED; a length of 0 always fails.
mmap(mapped, n, hugetlb) ==
    {MAP_FAILED} \cup
    {a \in 1..(AddressPages - 1) :
        /\ n > 0 /\ a + n <= AddressPages
        /\ PageRange(a, n) \cap mapped = {}
        /\ hugetlb => a % size_2m = 0}

munmap(mapped, addr, n) == mapped \ PageRange(addr, n)

\* x & !(size_2m - 1): size_2m is a power of two, so the mask clears the
\* low HugeShift bits of x.
MaskTo2M(x) == x - (x % size_2m)

\* Outcomes of Mapping::new: the mappings it leaves, Ok(Self { addr, len })
\* or Err, whether the hugetlb mmap served it, and the range the fallback
\* mmap returned (raw, larger_len).
MappingOk(mapped, addr, len, hugetlb, raw, larger_len) ==
    [mapped |-> mapped, res |-> "Ok", addr |-> addr, len |-> len,
     hugetlb |-> hugetlb, raw |-> raw, larger_len |-> larger_len]

MappingErr(mapped, len, raw, larger_len) ==
    [mapped |-> mapped, res |-> "Err", addr |-> MAP_FAILED, len |-> len,
     hugetlb |-> FALSE, raw |-> raw, larger_len |-> larger_len]

\* let larger_len = if len < size_2m { len } else { len + size_2m }
LargerLen(len) == IF len < size_2m THEN len ELSE len + size_2m

\* Mapping::new(len) over the mappings `mapped`, for given results of its
\* system calls: huge and raw are what the two mmap calls return, head_ok
\* and tail_ok whether the two munmap calls succeed.
Mapping_new(mapped, len, huge, raw, head_ok, tail_ok) ==
    IF len % size_2m = 0 /\ huge # MAP_FAILED
    THEN MappingOk(mapped \cup PageRange(huge, len), huge, len, TRUE,
                   MAP_FAILED, 0)
    ELSE
    LET larger_len == LargerLen(len)
    IN  IF raw = MAP_FAILED THEN MappingErr(mapped, len, MAP_FAILED, larger_len)
        ELSE
        LET m1 == mapped \cup PageRange(raw, larger_len)
            aligned_address == IF len > size_2m
                               THEN MaskTo2M(raw + size_2m - 1)
                               ELSE raw
            head_len == aligned_address - raw
            tail_len == larger_len - head_len - len
            m2 == IF raw # aligned_address
                  THEN munmap(m1, raw, aligned_address - raw) ELSE m1
        IN  IF raw # aligned_address /\ ~head_ok
            THEN MappingErr(m1, len, raw, larger_len)
            ELSE IF tail_len > 0 /\ ~tail_ok
            THEN MappingErr(m2, len, raw, larger_len)
            ELSE MappingOk(IF tail_len > 0
                           THEN munmap(m2, raw + len, tail_len) ELSE m2,
                           aligned_address, len, FALSE, raw, larger_len)

\* <Mapping as Drop>::drop
Mapping_drop(mapped, self) == munmap(mapped, self.addr, self.len)

\* Lengths Mapping::new is called with: 0, below, at and above size_2m,
\* multiples of size_2m and not.
MappingLens == {0, 1, size_2m, size_2m + 1, 2 * size_2m}

-----------------------------------------------------------------------------
(* The state machine *)

NoHist == [last |-> Zero, wrote |-> FALSE, hw_changed |-> Zero]

\* The ownership classes of register kind reg that the changed bits d touch:
\* all guest-owned bits if a guest-owned bit changed, all host-owned bits if
\* a host-owned bit changed.
ChangedClasses(reg, d) ==
    (IF BitAnd(d, guest_owned_mask(reg)) # Zero
     THEN guest_owned_mask(reg) ELSE Zero)
    \cup (IF BitAnd(d, BitNot(guest_owned_mask(reg))) # Zero
          THEN BitNot(guest_owned_mask(reg)) ELSE Zero)

\* What a rejected write was called on; NoPre for every other call.
NoPre == [reg |-> NoReg(<<"Cr0", "Vtl0">>), hw |-> [s \in Slots |-> Zero]]

\* The record of a call. again: the call repeats the call before it, a
\* successful write of the same value to the same instance. retry: the call
\* is a write that directly follows a rejected write to the same instance.
\* pre: for a rejected write, the instance and the hardware it was called on.
Call(op, i, arg, res, val, nm, log, again, retry, pre) ==
    [op |-> op, reg |-> i, arg |-> arg, res |-> res, val |-> val,
     name |-> nm, log |-> log, again |-> again, retry |-> retry, pre |-> pre]

\* The record of a call on the allocator: its arguments (mem for init, layout
\* for alloc and dealloc), its outcome (pointer returned, or panic), and the
\* blocks (pointer, size, alignment asked for) of all non-null pointers
\* alloc has returned so far, in the order returned (kept by AllocTracked).
NoMem == [start |-> null_mut, len |-> 0]

NoLayout == [size |-> 0, align |-> 1]

AllocCall(op, mem, layout, out, blocks) ==
    [op |-> op, mem |-> mem, layout |-> layout,
     panic |-> out.panic, returned |-> out.returned, ptr |-> out.ptr,
     blocks |-> blocks]

\* The record of a call on the log buffer: the length of the string written,
\* the result of write_str, the array or the position returned, with the most
\* recent bytes written so far (at most LOG_BUFFER_SIZE of them, oldest
\* first) and their total number.
LogCall(op, len, res, buf, pos, tail, total) ==
    [op |-> op, len |-> len, res |-> res, buf |-> buf, pos |-> pos,
     tail |-> tail, total |-> total]

\* The record of a call on a Mapping, with the pages mapped after it and
\* whether a Mapping is held (constructed and not yet dropped).
MapCall(op, held, out) ==
    [op |-> op, held |-> held, mapped |-> out.mapped, res |-> out.res,
     addr |-> out.addr, len |-> out.len, hugetlb |-> out.hugetlb,
     raw |-> out.raw, larger_len |-> out.larger_len]

\* The test double's hardware (cr0: 0, cr4: 0) and an empty bank; the
\* allocator and the log buffer as their const constructors leave them; no
\* page mapped.
Init ==
    /\ regs = [i \in Instances |-> NoReg(i)]
    /\ vmcs = [s \in Slots |-> Zero]
    /\ ret = Call("none", <<"Cr0", "Vtl0">>, Zero, "Unit", Zero, "", <<>>,
                 FALSE, FALSE, NoPre)
    /\ hist = [i \in Instances |-> NoHist]
    /\ allocator = BumpAllocator_new
    /\ aret = AllocCall("none", NoMem, NoLayout,
                        Returns(BumpAllocator_new, null_mut), <<>>)
    /\ logb = LogBuffer_new
    /\ lret = LogCall("none", 0, "", LogBuffer_new.buffer, 0, <<>>, 0)
    /\ mm = MapCall("none", FALSE, MappingErr({}, 0, MAP_FAILED, 0))

\* VirtualRegister::new for (kind, vtl) i. One instance is constructed per
\* behaviour: instances of other kinds and trust levels use other slots.
New(i, initial_value, allowed_bits) ==
    /\ \A j \in Instances : ~regs[j].live
    /\ regs' = [regs EXCEPT ![i] =
                  VirtualRegister_new(i[1], i[2], initial_value, allowed_bits)]
    /\ hist' = [hist EXCEPT ![i] = [NoHist EXCEPT !.last = initial_value]]
    /\ ret' = Call("new", i, initial_value, "Unit", Zero, "", <<>>,
                 FALSE, FALSE, NoPre)
    /\ UNCHANGED vmcs
    /\ UNCHANGED <<allocator, aret, logb, lret, mm>>

\* VirtualRegister::write(value, runner) on instance i.
Write(i, value) ==
    /\ regs[i].live
    /\ LET w == VirtualRegister_write(regs[i], value, vmcs)
       IN  /\ regs' = [regs EXCEPT ![i] = w.reg]
           /\ vmcs' = w.hw
           /\ ret' = Call("write", i, value, w.res, w.val, w.name, w.log,
                       /\ ret.op = "write" /\ ret.res = "Ok"
                       /\ ret.reg = i /\ ret.arg = value,
                       /\ ret.op = "write" /\ ret.res = "InvalidValue"
                       /\ ret.reg = i,
                       IF w.res = "InvalidValue"
                       THEN [reg |-> regs[i], hw |-> vmcs]
                       ELSE NoPre)
           /\ hist' = IF w.res = "Ok"
                      THEN [hist EXCEPT ![i] =
                              [last |-> value, wrote |-> TRUE, hw_changed |-> Zero]]
                      ELSE hist
    /\ UNCHANGED <<allocator, aret, logb, lret, mm>>

\* VirtualRegister::read(runner) on instance i.
Read(i) ==
    /\ regs[i].live
    /\ LET r == VirtualRegister_read(regs[i], vmcs)
       IN  ret' = Call("read", i, Zero, "U64", r.val, "", r.log,
                      FALSE, FALSE, NoPre)
    /\ UNCHANGED <<regs, vmcs, hist>>
    /\ UNCHANGED <<allocator, aret, logb, lret, mm>>

\* Direct guest execution: the hardware changes the physical slot of a
\* virtualized register to v, with no call into the engine.
HwMutate(i, v) ==
    /\ regs[i].live
    /\ LET slot == <<i[2], physical_vmcs_field(i[1])>>
       IN  /\ vmcs[slot] # v
           /\ vmcs' = [vmcs EXCEPT ![slot] = v]
           /\ hist' = [hist EXCEPT ![i].hw_changed =
                         @ \cup ChangedClasses(i[1], BitXor(vmcs[slot], v))]
    /\ ret' = Call("hw", i, v, "Unit", Zero, "", <<>>, FALSE, FALSE, NoPre)
    /\ UNCHANGED regs
    /\ UNCHANGED <<allocator, aret, logb, lret, mm>>

Next ==
    \/ \E i \in Instances : \E v \in Values(i[1]) :
          \E a \in AllowedChoices(i[1]) : New(i, v, a)
    \/ \E i \in Instances : \E v \in Values(i[1]) : Write(i, v)
    \/ \E i \in Instances : Read(i)
    \/ \E i \in Instances : \E v \in Values(i[1]) : HwMutate(i, v)

Spec == Init /\ [][Next]_vars

-----------------------------------------------------------------------------
(* The bank: two instances side by side *)

\* Number of instances that may already be live when another one is built.
MaxOthers == 1

\* Values of the bank's calls: every combination of one guest-owned and one
\* host-owned bit of the register kind.
BankValues(reg) == SUBSET {SampleOrder(reg)[1], SampleOrder(reg)[3]}

\* Legality masks of the bank's instances: none, or the guest-owned bit.
BankAllowed(reg) == {None, Some({SampleOrder(reg)[1]})}

\* VirtualRegister::new for (kind, vtl) i in a bank that holds at most
\* MaxOthers other instances: every pair of instances is explored (same kind
\* at the other trust level, other kind at the same or the other trust level).
NewBank(i, initial_value, allowed_bits) ==
    /\ ~regs[i].live
    /\ Cardinality({j \in Instances : regs[j].live}) <= MaxOthers
    /\ regs' = [regs EXCEPT ![i] =
                  VirtualRegister_new(i[1], i[2], initial_value, allowed_bits)]
    /\ hist' = [hist EXCEPT ![i] = [NoHist EXCEPT !.last = initial_value]]
    /\ ret' = Call("new", i, initial_value, "Unit", Zero, "", <<>>,
                   FALSE, FALSE, NoPre)
    /\ UNCHANGED vmcs
    /\ UNCHANGED <<allocator, aret, logb, lret, mm>>

NextBank ==
    \/ \E i \in Instances : \E v \in BankValues(i[1]) :
          \E a \in BankAllowed(i[1]) : NewBank(i, v, a)
    \/ \E i \in Instances : \E v \in BankValues(i[1]) : Write(i, v)
    \/ \E i \in Instances : Read(i)

SpecBank == Init /\ [][NextBank]_vars

-----------------------------------------------------------------------------
(* Vocabulary of the properties *)

PhysSlot(i) == <<i[2], physical_vmcs_field(i[1])>>

ShadowSlot(i) == <<i[2], shadow_vmcs_field(i[1])>>

GuestBits(i, v) == v \cap guest_owned_mask(i[1])

HostBits(i, v) == v \ guest_owned_mask(i[1])

\* The bits of v that the legality mask of instance r does not allow.
Offending(r, v) == IF r.allowed_bits.some THEN v \ r.allowed_bits.bits ELSE {}

\* Number of write accesses to the slot in an access log.
WritesTo(log, slot) ==
    Cardinality({k \in 1 .. Len(log) :
        /\ log[k].kind = "write"
        /\ <<log[k].vtl, log[k].field>> = slot})

AnyWrite(log) == \E k \in 1 .. Len(log) : log[k].kind = "write"

-----------------------------------------------------------------------------
(* Properties *)

\* C1 (Validation): a write of a value with a bit outside allowed_bits =
\* Some(m) returns InvalidValue carrying the value and the register's name,
\* makes no hardware access, and leaves shadow_value (the whole instance),
\* the physical slot and the shadow slot (the whole hardware) as they were.
C1_Validation ==
    [][\A i \in Instances :
         (/\ ret'.op = "write" /\ ret'.reg = i
          /\ regs[i].allowed_bits.some
          /\ ret'.arg \ regs[i].allowed_bits.bits # {})
         => (/\ ret'.res = "InvalidValue"
             /\ ret'.val = ret'.arg
             /\ ret'.name = name(i[1])
             /\ ret'.log = <<>>
             /\ regs' = regs
             /\ vmcs' = vmcs)]_vars

\* A write was rejected while the physical slot and shadow_value both differ
\* from the rejected value.
C1_Witness ==
    /\ ret.op = "write" /\ ret.res = "InvalidValue"
    /\ regs[ret.reg].allowed_bits.some
    /\ regs[ret.reg].shadow_value # ret.arg
    /\ vmcs[PhysSlot(ret.reg)] # Zero
    /\ GuestBits(ret.reg, vmcs[PhysSlot(ret.reg)]) # GuestBits(ret.reg, ret.arg)

\* C2 (Round trip): a read with no hardware mutation since the last
\* successful write(value) returns exactly value, whatever the physical slot
\* held before the write and whatever the register kind.
C2_RoundTrip ==
    (ret.op = "read" /\ hist[ret.reg].wrote /\ hist[ret.reg].hw_changed = Zero)
    => ret.val = hist[ret.reg].last

\* A read returned a written value that has guest-owned and host-owned bits,
\* over a physical slot whose host-owned bits differ from the value's.
C2_Witness ==
    /\ ret.op = "read" /\ hist[ret.reg].wrote
    /\ hist[ret.reg].hw_changed = Zero
    /\ ret.val = hist[ret.reg].last
    /\ GuestBits(ret.reg, ret.val) # Zero
    /\ HostBits(ret.reg, ret.val) # Zero
    /\ HostBits(ret.reg, vmcs[PhysSlot(ret.reg)]) # HostBits(ret.reg, ret.val)

\* C3 (Ownership partition): when the hardware has changed only guest-owned
\* bits of the physical slot since the last successful write(value), a read
\* returns value's host-owned bits and the physical slot's current
\* guest-owned bits.
C3_OwnershipPartition ==
    (/\ ret.op = "read" /\ hist[ret.reg].wrote
     /\ hist[ret.reg].hw_changed \subseteq guest_owned_mask(ret.reg[1]))
    => (/\ HostBits(ret.reg, ret.val) = HostBits(ret.reg, hist[ret.reg].last)
        /\ GuestBits(ret.reg, ret.val) =
              GuestBits(ret.reg, vmcs[PhysSlot(ret.reg)]))

\* A read after the guest changed guest-owned bits only: the result's
\* guest-owned bits are not the written value's, the host-owned bits are.
C3_Witness ==
    /\ ret.op = "read" /\ hist[ret.reg].wrote
    /\ hist[ret.reg].hw_changed # Zero
    /\ hist[ret.reg].hw_changed \subseteq guest_owned_mask(ret.reg[1])
    /\ GuestBits(ret.reg, ret.val) # GuestBits(ret.reg, hist[ret.reg].last)
    /\ HostBits(ret.reg, ret.val) # Zero
    /\ HostBits(ret.reg, ret.val) = HostBits(ret.reg, hist[ret.reg].last)

\* C4 (Selective hardware write): a successful write(value) writes the
\* physical slot (once) if and only if the old physical content and value
\* disagree on a guest-owned bit, and writes the shadow slot exactly once on
\* every successful write.
C4_SelectiveWrite ==
    [][(ret'.op = "write" /\ ret'.res = "Ok")
       => LET i == ret'.reg
              n == WritesTo(ret'.log, PhysSlot(i))
          IN  /\ n <= 1
              /\ (n = 1) <=> (GuestBits(i, vmcs[PhysSlot(i)]) # GuestBits(i, ret'.arg))
              /\ WritesTo(ret'.log, ShadowSlot(i)) = 1]_vars

\* A successful write of a value with guest-owned bits set that found them
\* already in the physical slot: no physical-slot write, one shadow-slot write.
C4_Witness ==
    /\ ret.op = "write" /\ ret.res = "Ok" /\ ~ret.again
    /\ GuestBits(ret.reg, ret.arg) # Zero
    /\ WritesTo(ret.log, PhysSlot(ret.reg)) = 0
    /\ WritesTo(ret.log, ShadowSlot(ret.reg)) = 1

\* C5 (Idempotence): a write(value) that directly follows a successful
\* write(value) on the same instance succeeds, leaves shadow_value, the
\* physical slot and the shadow slot as the first call left them, and issues
\* no physical-slot write.
C5_Idempotence ==
    [][(/\ ret.op = "write" /\ ret.res = "Ok"
        /\ ret'.op = "write" /\ ret'.reg = ret.reg /\ ret'.arg = ret.arg)
       => (/\ ret'.res = "Ok"
           /\ regs' = regs
           /\ vmcs' = vmcs
           /\ WritesTo(ret'.log, PhysSlot(ret'.reg)) = 0)]_vars

\* The second of two equal writes has returned, the first of which had to
\* update the physical slot.
C5_Witness ==
    /\ ret.op = "write" /\ ret.res = "Ok" /\ ret.again
    /\ GuestBits(ret.reg, ret.arg) # Zero
    /\ HostBits(ret.reg, ret.arg) # Zero
    /\ regs[ret.reg].shadow_value = ret.arg

\* The instance of the concrete scenario: CR0 at trust level 0.
C6_Reg == <<"Cr0", "Vtl0">>

\* The scenario after write(0) has succeeded and a read returns 0: CR0 with
\* allowed_bits = protection-enable | paging, the last accepted value 0,
\* shadow_value 0 and physical register 0.
C6_Scenario ==
    /\ regs[C6_Reg].live
    /\ regs[C6_Reg].allowed_bits = Some(X64_CR0_PE \cup X64_CR0_PG)
    /\ hist[C6_Reg].wrote /\ hist[C6_Reg].last = Zero
    /\ regs[C6_Reg].shadow_value = Zero
    /\ vmcs[PhysSlot(C6_Reg)] = Zero

C7_WritePostcondition ==
    (ret.op = "write" /\ ret.res = "Ok")
    => (/\ regs[ret.reg].shadow_value = ret.arg
        /\ GuestBits(ret.reg, vmcs[PhysSlot(ret.reg)]) =
              GuestBits(ret.reg, ret.arg))

\* write(protection-enable) on CR0 has succeeded and had to set the physical
\* protection-enable bit, over a physical slot with other bits set.
C7_Witness ==
    /\ ret.op = "write" /\ ret.res = "Ok" /\ ret.reg[1] = "Cr0"
    /\ ret.arg = X64_CR0_PE
    /\ WritesTo(ret.log, PhysSlot(ret.reg)) = 1
    /\ X64_CR0_PE \subseteq vmcs[PhysSlot(ret.reg)]
    /\ vmcs[PhysSlot(ret.reg)] # ret.arg

\* C8 (read): read returns (shadow_value & !guest_owned_mask) |
\* (physical & guest_owned_mask) for the current physical slot, changes
\* neither the instance nor any hardware slot, and issues no hardware write.
C8_Read ==
    [][(ret'.op = "read")
       => LET i == ret'.reg
          IN  /\ ret'.val = (regs[i].shadow_value \ guest_owned_mask(i[1]))
                            \cup (vmcs[PhysSlot(i)] \cap guest_owned_mask(i[1]))
              /\ regs' = regs
              /\ vmcs' = vmcs
              /\ ~AnyWrite(ret'.log)]_vars

\* A read whose result is neither shadow_value nor the physical content.
C8_Witness ==
    /\ ret.op = "read"
    /\ ret.val # regs[ret.reg].shadow_value
    /\ ret.val # vmcs[PhysSlot(ret.reg)]
    /\ ret.val # Zero

\* C9 (Host-owned invariant): in every reachable state the host-owned bits
\* of shadow_value are those of the most recent successfully written value
\* (of initial_value before any), and shadow_value of a constructed instance
\* changes in a successful write to that instance only.
C9_HostOwned ==
    /\ [](\A i \in Instances :
            regs[i].live =>
              HostBits(i, regs[i].shadow_value) = HostBits(i, hist[i].last))
    /\ [][\A i \in Instances :
            (regs[i].live /\ regs'[i].shadow_value # regs[i].shadow_value)
            => (ret'.op = "write" /\ ret'.res = "Ok" /\ ret'.reg = i)]_vars

\* A write was rejected after an accepted write with host-owned bits and
\* after the hardware changed host-owned bits of the physical slot.
C9_Witness ==
    /\ ret.op = "write" /\ ret.res = "InvalidValue"
    /\ hist[ret.reg].wrote
    /\ HostBits(ret.reg, hist[ret.reg].last) # Zero
    /\ HostBits(ret.reg, hist[ret.reg].hw_changed) # Zero
    /\ HostBits(ret.reg, ret.arg) # HostBits(ret.reg, hist[ret.reg].last)
    /\ HostBits(ret.reg, vmcs[PhysSlot(ret.reg)]) #
          HostBits(ret.reg, hist[ret.reg].last)

\* C10 (whole-value legality): with allowed_bits set, a write whose offending
\* bits are all host-owned (every guest-owned bit of the value is allowed)
\* is rejected, and neither the instance nor any hardware slot changes.
C10_WholeValue ==
    [][\A i \in Instances :
         (/\ ret'.op = "write" /\ ret'.reg = i
          /\ Offending(regs[i], ret'.arg) # {}
          /\ GuestBits(i, Offending(regs[i], ret'.arg)) = {})
         => (/\ ret'.res = "InvalidValue"
             /\ ret'.log = <<>>
             /\ regs' = regs
             /\ vmcs' = vmcs)]_vars

\* A rejected write whose offending bits are all host-owned and whose
\* (allowed) guest-owned bits are neither in shadow_value nor in hardware.
C10_Witness ==
    /\ ret.op = "write" /\ ret.res = "InvalidValue"
    /\ Offending(regs[ret.reg], ret.arg) # {}
    /\ GuestBits(ret.reg, Offending(regs[ret.reg], ret.arg)) = {}
    /\ GuestBits(ret.reg, ret.arg) # {}
    /\ GuestBits(ret.reg, ret.arg) \cap regs[ret.reg].shadow_value = {}
    /\ GuestBits(ret.reg, ret.arg) \cap vmcs[PhysSlot(ret.reg)] = {}
    /\ vmcs[ShadowSlot(ret.reg)] # ret.arg

\* C11 (a rejected write is retryable): a write(v) with a legal v that
\* directly follows a rejected write(bad) on the same instance succeeds and
\* ends with the instance and the hardware that write(v) gives on what
\* write(bad) was called on.
C11_Retry ==
    [][(/\ ret.op = "write" /\ ret.res = "InvalidValue"
        /\ ret'.op = "write" /\ ret'.reg = ret.reg
        /\ Offending(regs[ret.reg], ret'.arg) = {})
       => LET w == VirtualRegister_write(ret.pre.reg, ret'.arg, ret.pre.hw)
          IN  /\ ret'.res = "Ok"
              /\ w.res = "Ok"
              /\ regs' = [regs EXCEPT ![ret.reg] = w.reg]
              /\ vmcs' = w.hw]_vars

\* A write was accepted directly after a rejected one, over a physical slot
\* with host-owned bits set, and had to update the physical slot.
C11_Witness ==
    /\ ret.op = "write" /\ ret.res = "Ok" /\ ret.retry
    /\ ret.arg # Zero
    /\ WritesTo(ret.log, PhysSlot(ret.reg)) = 1
    /\ HostBits(ret.reg, vmcs[PhysSlot(ret.reg)]) # Zero

\* C12 (construction): new stores initial_value in shadow_value as it is,
\* also with bits outside allowed_bits, and makes no hardware access; a read
\* before any write returns initial_value's host-owned bits with the
\* guest-owned bits the physical slot holds.
C12_Construction ==
    /\ (ret.op = "new")
       => (/\ regs[ret.reg].live
           /\ regs[ret.reg].shadow_value = ret.arg
           /\ ret.log = <<>>
           /\ vmcs = [s \in Slots |-> Zero])
    /\ (ret.op = "read" /\ ~hist[ret.reg].wrote)
       => ret.val = HostBits(ret.reg, hist[ret.reg].last)
                    \cup GuestBits(ret.reg, vmcs[PhysSlot(ret.reg)])

\* A read before any write of an instance whose initial value has host-owned
\* bits outside allowed_bits, over a physical slot whose guest-owned bits
\* are not the initial value's.
C12_Witness ==
    /\ ret.op = "read" /\ ~hist[ret.reg].wrote
    /\ HostBits(ret.reg, Offending(regs[ret.reg], hist[ret.reg].last)) # {}
    /\ regs[ret.reg].shadow_value = hist[ret.reg].last
    /\ GuestBits(ret.reg, vmcs[PhysSlot(ret.reg)]) # {}
    /\ GuestBits(ret.reg, vmcs[PhysSlot(ret.reg)]) #
          GuestBits(ret.reg, hist[ret.reg].last)

\* C16 (frame of write): a successful write leaves every host-owned bit of
\* the physical slot as it was.
C16_PhysicalHostBits ==
    [][(ret'.op = "write" /\ ret'.res = "Ok")
       => HostBits(ret'.reg, vmcs'[PhysSlot(ret'.reg)]) =
             HostBits(ret'.reg, vmcs[PhysSlot(ret'.reg)])]_vars

\* A successful write of a value without host-owned bits updated a
\* physical slot whose host-owned bits are set.
C16_Witness ==
    /\ ret.op = "write" /\ ret.res = "Ok"
    /\ WritesTo(ret.log, PhysSlot(ret.reg)) = 1
    /\ HostBits(ret.reg, vmcs[PhysSlot(ret.reg)]) # Zero
    /\ GuestBits(ret.reg, ret.arg) # Zero
    /\ HostBits(ret.reg, ret.arg) = Zero

\* The hardware hw with the host-owned bits of the physical slot of instance
\* i replaced by those of h.
C17_Variant(hw, i, h) ==
    [hw EXCEPT ![PhysSlot(i)] = GuestBits(i, @) \cup HostBits(i, h)]

\* C17 (host-owned physical bits do not matter): on a hardware that differs
\* only in host-owned bits of the physical slot, read returns what it
\* returned, and write gives the same result, the same instance, the same
\* shadow slot and the same guest-owned physical bits.
C17_HostBitsIrrelevant ==
    /\ [](ret.op = "read" =>
            \A h \in Values(ret.reg[1]) :
               VirtualRegister_read(regs[ret.reg],
                                    C17_Variant(vmcs, ret.reg, h)).val = ret.val)
    /\ [][(ret'.op = "write") =>
            \A h \in Values(ret'.reg[1]) :
               LET i == ret'.reg
                   w == VirtualRegister_write(regs[i], ret'.arg,
                                              C17_Variant(vmcs, i, h))
               IN  /\ w.res = ret'.res
                   /\ w.reg = regs'[i]
                   /\ w.hw[ShadowSlot(i)] = vmcs'[ShadowSlot(i)]
                   /\ GuestBits(i, w.hw[PhysSlot(i)]) =
                         GuestBits(i, vmcs'[PhysSlot(i)])]_vars

\* A read over a physical slot whose host-owned bits are set and are not
\* the host-owned bits returned.
C17_Witness ==
    /\ ret.op = "read" /\ hist[ret.reg].wrote
    /\ HostBits(ret.reg, vmcs[PhysSlot(ret.reg)]) # Zero
    /\ GuestBits(ret.reg, ret.val) # Zero
    /\ HostBits(ret.reg, ret.val) # HostBits(ret.reg, vmcs[PhysSlot(ret.reg)])

\* C18 (shadow-slot coherence): a successful write(value) stores the whole
\* value in the shadow slot; from the first successful write on the shadow
\* slot equals shadow_value; and the shadow slot changes in a successful
\* write to its instance only.
C18_ShadowCoherence ==
    /\ [](\A i \in Instances :
            hist[i].wrote => vmcs[ShadowSlot(i)] = regs[i].shadow_value)
    /\ []((ret.op = "write" /\ ret.res = "Ok")
            => vmcs[ShadowSlot(ret.reg)] = ret.arg)
    /\ [][\A i \in Instances :
            (vmcs'[ShadowSlot(i)] # vmcs[ShadowSlot(i)])
            => (ret'.op = "write" /\ ret'.res = "Ok" /\ ret'.reg = i)]_vars

\* A write was rejected after the guest changed the physical slot, after a
\* write of a value with guest-owned and host-owned bits was accepted.
C18_Witness ==
    /\ ret.op = "write" /\ ret.res = "InvalidValue"
    /\ hist[ret.reg].wrote /\ hist[ret.reg].hw_changed # Zero
    /\ vmcs[ShadowSlot(ret.reg)] = regs[ret.reg].shadow_value
    /\ GuestBits(ret.reg, regs[ret.reg].shadow_value) # Zero
    /\ HostBits(ret.reg, regs[ret.reg].shadow_value) # Zero
    /\ vmcs[PhysSlot(ret.reg)] # vmcs[ShadowSlot(ret.reg)]

\* The slots of the protocol, by name.
C19_Physical(reg) ==
    IF reg = "Cr0" THEN "VMX_VMCS_GUEST_CR0" ELSE "VMX_VMCS_GUEST_CR4"

C19_Shadow(reg) ==
    IF reg = "Cr0" THEN "VMX_VMCS_CR0_READ_SHADOW" ELSE "VMX_VMCS_CR4_READ_SHADOW"

\* C19 (hardware access protocol): a successful write makes one read of the
\* physical slot, then at most one write of the physical slot, then one
\* write of the shadow slot with the value, every write with the all-ones
\* mask, every access at the instance's trust level; read makes one read of
\* the physical slot and nothing else.
C19_AccessProtocol ==
    /\ (ret.op = "write" /\ ret.res = "Ok")
       => LET log == ret.log
              n == Len(log)
              reg == ret.reg[1]
              vtl == ret.reg[2]
          IN  /\ n \in {2, 3}
              /\ log[1] = ReadAccess(vtl, C19_Physical(reg))
              /\ log[n] = WriteAccess(vtl, C19_Shadow(reg), U64_MAX, ret.arg)
              /\ (n = 3) => (/\ log[2].kind = "write"
                             /\ log[2].vtl = vtl
                             /\ log[2].field = C19_Physical(reg)
                             /\ log[2].mask = U64_MAX)
    /\ (ret.op = "read")
       => ret.log = <<ReadAccess(ret.reg[2], C19_Physical(ret.reg[1]))>>

\* A successful write to CR4 at trust level 1 that made all three accesses.
C19_Witness ==
    /\ ret.op = "write" /\ ret.res = "Ok"
    /\ ret.reg = <<"Cr4", "Vtl1">>
    /\ Len(ret.log) = 3
    /\ ret.arg # Zero


-----------------------------------------------------------------------------
(* The allocator's state machine *)

\* Number of successful allocations in a behaviour (zero-sized requests
\* succeed without consuming memory, so the count alone is unbounded).
MaxAllocs == 3

\* A panic ends the boot loader: no call follows one.
BumpInit(mem) ==
    /\ aret.panic = ""
    /\ LET out == init(allocator, mem)
       IN  /\ allocator' = out.inner
           /\ aret' = AllocCall("init", mem, NoLayout, out,
                               aret.blocks)
    /\ UNCHANGED <<regs, vmcs, ret, hist, logb, lret, mm>>

EnableAlloc ==
    /\ aret.panic = ""
    /\ LET out == enable_alloc(allocator)
       IN  /\ allocator' = out.inner
           /\ aret' = AllocCall("enable_alloc", NoMem, NoLayout, out,
                               aret.blocks)
    /\ UNCHANGED <<regs, vmcs, ret, hist, logb, lret, mm>>

DisableAlloc ==
    /\ aret.panic = ""
    /\ LET out == disable_alloc(allocator)
       IN  /\ allocator' = out.inner
           /\ aret' = AllocCall("disable_alloc", NoMem, NoLayout, out,
                               aret.blocks)
    /\ UNCHANGED <<regs, vmcs, ret, hist, logb, lret, mm>>

LogStats ==
    /\ aret.panic = ""
    /\ LET out == log_stats(allocator)
       IN  /\ allocator' = out.inner
           /\ aret' = AllocCall("log_stats", NoMem, NoLayout, out,
                               aret.blocks)
    /\ UNCHANGED <<regs, vmcs, ret, hist, logb, lret, mm>>

Alloc(layout) ==
    /\ aret.panic = ""
    /\ allocator.alloc_count < MaxAllocs
    /\ LET out == alloc(allocator, layout)
       IN  /\ allocator' = out.inner
           /\ aret' = AllocCall("alloc", NoMem, layout, out,
                               aret.blocks)
    /\ UNCHANGED <<regs, vmcs, ret, hist, logb, lret, mm>>

\* dealloc is called with the first block or the block returned last.
Dealloc(ptr, layout) ==
    /\ aret.panic = ""
    /\ LET out == dealloc(allocator, ptr, layout)
       IN  /\ allocator' = out.inner
           /\ aret' = AllocCall("dealloc", NoMem, layout, out,
                               aret.blocks)
    /\ UNCHANGED <<regs, vmcs, ret, hist, logb, lret, mm>>

NextAlloc ==
    \/ \E mem \in MemoryRanges : BumpInit(mem)
    \/ EnableAlloc
    \/ DisableAlloc
    \/ LogStats
    \/ \E layout \in Layouts : Alloc(layout)
    \/ \E ptr \in {allocator.start, aret.ptr} : \E layout \in Layouts :
          Dealloc(ptr, layout)

SpecAlloc == Init /\ [][NextAlloc]_vars

\* GlobalAlloc::alloc, keeping the list of the blocks returned.
AllocTracked(layout) ==
    /\ aret.panic = ""
    /\ allocator.alloc_count < MaxAllocs
    /\ LET out == alloc(allocator, layout)
       IN  /\ allocator' = out.inner
           /\ aret' = AllocCall("alloc", NoMem, layout, out,
                IF out.returned /\ out.ptr # null_mut
                THEN Append(aret.blocks,
                            [ptr |-> out.ptr, size |-> layout.size,
                             align |-> layout.align])
                ELSE aret.blocks)
    /\ UNCHANGED <<regs, vmcs, ret, hist, logb, lret, mm>>

\* The allocator while allocations are enabled, with its blocks recorded.
NextBlocks ==
    \/ \E mem \in MemoryRanges : BumpInit(mem)
    \/ EnableAlloc
    \/ \E layout \in Layouts : AllocTracked(layout)
    \/ \E ptr \in {allocator.start, aret.ptr} : \E layout \in Layouts :
          Dealloc(ptr, layout)

SpecBlocks == Init /\ [][NextBlocks]_vars

-----------------------------------------------------------------------------
(* The log buffer's state machine *)

WriteStr(s) ==
    /\ lret.total + Len(s) <= MaxTotal
    /\ LET out == write_str(logb, s)
       IN  /\ logb' = out.self
           /\ lret' = LogCall("write_str", Len(s), out.res,
                              LogBuffer_new.buffer, 0,
                              LastN(lret.tail \o s, LOG_BUFFER_SIZE),
                              lret.total + Len(s))
    /\ UNCHANGED <<regs, vmcs, ret, hist, allocator, aret, mm>>

GetPosition ==
    /\ lret' = LogCall("get_position", 0, "", LogBuffer_new.buffer,
                       get_position(logb), lret.tail, lret.total)
    /\ UNCHANGED <<regs, vmcs, ret, hist, allocator, aret, logb, mm>>

GetRawBuffer ==
    /\ lret' = LogCall("get_raw_buffer", 0, "", get_raw_buffer(logb), 0,
                       lret.tail, lret.total)
    /\ UNCHANGED <<regs, vmcs, ret, hist, allocator, aret, logb, mm>>

GetBuffer ==
    /\ lret' = LogCall("get_buffer", 0, "", get_buffer(logb), 0,
                       lret.tail, lret.total)
    /\ UNCHANGED <<regs, vmcs, ret, hist, allocator, aret, logb, mm>>

NextLog ==
    \/ \E s \in Strings : WriteStr(s)
    \/ GetPosition
    \/ GetRawBuffer
    \/ GetBuffer

SpecLog == Init /\ [][NextLog]_vars

-----------------------------------------------------------------------------
(* The mapping's state machine *)

\* Mapping::new(len), while no Mapping is held: each system call returns
\* any result the kernel can give over the pages mapped so far.
MappingNew(len) ==
    /\ ~mm.held
    /\ \E huge \in mmap(mm.mapped, len, TRUE) :
       \E raw \in mmap(mm.mapped, LargerLen(len), FALSE) :
       \E head_ok \in BOOLEAN : \E tail_ok \in BOOLEAN :
         LET out == Mapping_new(mm.mapped, len, huge, raw, head_ok, tail_ok)
         IN  mm' = MapCall("new", out.res = "Ok", out)
    /\ UNCHANGED <<regs, vmcs, ret, hist, allocator, aret, logb, lret>>

\* Dropping the Mapping held.
MappingDrop ==
    /\ mm.held
    /\ mm' = MapCall("drop", FALSE,
                     MappingErr(Mapping_drop(mm.mapped, mm), mm.len,
                                MAP_FAILED, 0))
    /\ UNCHANGED <<regs, vmcs, ret, hist, allocator, aret, logb, lret>>

NextLock ==
    \/ \E len \in MappingLens : MappingNew(len)
    \/ MappingDrop

SpecLock == Init /\ [][NextLock]_vars

-----------------------------------------------------------------------------
(* C20 *)

\* The two hardware slots a (kind, vtl) instance owns, by the field catalog.
C20_OwnSlots(i) == {<<i[2], C19_Physical(i[1])>>, <<i[2], C19_Shadow(i[1])>>}

\* C20: instances are independent.  A write or a read on the instance of
\* (kind K, trust level T) accesses only K's physical and shadow slots under
\* T and changes only those slots and that instance's own shadow_value: the
\* other kind's slots, every slot of the other trust level and every other
\* instance's state are left exactly as they were.
C20_Independence ==
    [][ret'.op \in {"write", "read"} =>
         LET i == ret'.reg IN
         /\ \A j \in Instances \ {i} : regs'[j] = regs[j]
         /\ \A s \in Slots \ C20_OwnSlots(i) : vmcs'[s] = vmcs[s]
         /\ \A k \in 1..Len(ret'.log) :
               <<ret'.log[k].vtl, ret'.log[k].field>> \in C20_OwnSlots(i)
         /\ regs'[i].register = regs[i].register /\ regs'[i].vtl = regs[i].vtl]_vars

\* An accepted write on one instance that changed its own state while the
\* instance of the other kind at the same trust level is live and holds
\* non-zero values in its shadow_value and in both of its hardware slots.
C20_Witness ==
    /\ ret.op = "write" /\ ret.res = "Ok" /\ ret.arg # Zero
    /\ AnyWrite(ret.log)
    /\ \E j \in Instances :
         /\ j[1] # ret.reg[1] /\ j[2] = ret.reg[2]
         /\ regs[j].live /\ regs[j].shadow_value # Zero
         /\ \A s \in C20_OwnSlots(j) : vmcs[s] # Zero

-----------------------------------------------------------------------------
(* C13 *)

\* C13: the allocator's lifecycle is one-way.  enable_alloc succeeds only in
\* Allowed, where it moves to Enabled, and panics in Enabled and in Disabled;
\* disable_alloc succeeds only in Enabled, where it moves to Disabled, and
\* panics in Allowed and in Disabled.  A panicking call leaves the allocator
\* as it was, no other call changes the lifecycle state, so allocation is
\* enabled at most once and Disabled is never left.
C13_Lifecycle ==
    [][/\ aret'.op = "enable_alloc" =>
            IF allocator.allow_alloc = "Allowed"
            THEN /\ aret'.panic = ""
                 /\ allocator' = [allocator EXCEPT !.allow_alloc = "Enabled"]
            ELSE aret'.panic # "" /\ allocator' = allocator
       /\ aret'.op = "disable_alloc" =>
            IF allocator.allow_alloc = "Enabled"
            THEN /\ aret'.panic = ""
                 /\ allocator' = [allocator EXCEPT !.allow_alloc = "Disabled"]
            ELSE aret'.panic # "" /\ allocator' = allocator
       /\ allocator'.allow_alloc # allocator.allow_alloc =>
            \/ /\ aret'.op = "enable_alloc"
               /\ allocator.allow_alloc = "Allowed"
               /\ allocator'.allow_alloc = "Enabled"
            \/ /\ aret'.op = "disable_alloc"
               /\ allocator.allow_alloc = "Enabled"
               /\ allocator'.allow_alloc = "Disabled"
       /\ allocator.allow_alloc = "Disabled" =>
            allocator'.allow_alloc = "Disabled"
       /\ allocator'.allow_alloc = "Allowed" =>
            allocator.allow_alloc = "Allowed"]_vars

\* enable_alloc has panicked on an allocator that was enabled, used and
\* disabled before.
C13_Witness ==
    /\ aret.op = "enable_alloc"
    /\ aret.panic = "allocations were previously disabled and cannot be re-enabled"
    /\ allocator.allow_alloc = "Disabled"
    /\ allocator.alloc_count > 0

-----------------------------------------------------------------------------
(* C14 *)

\* C14: alloc outside the Enabled state panics: it returns no pointer and
\* changes neither next nor alloc_count (nor anything else of the
\* allocator).  Only in Enabled does alloc return, with a pointer or null.
C14_AllocNeedsEnabled ==
    [][aret'.op = "alloc" =>
         IF allocator.allow_alloc \in {"Allowed", "Disabled"}
         THEN /\ aret'.panic # "" /\ ~aret'.returned
              /\ allocator'.next = allocator.next
              /\ allocator'.alloc_count = allocator.alloc_count
              /\ allocator' = allocator
         ELSE /\ allocator.allow_alloc = "Enabled"
              /\ aret'.panic = "" /\ aret'.returned]_vars

\* alloc has panicked on a disabled allocator whose memory range would have
\* satisfied the request: earlier requests were served from it and the
\* request fits before end.
C14_Witness ==
    /\ aret.op = "alloc" /\ aret.panic # ""
    /\ allocator.allow_alloc = "Disabled"
    /\ allocator.alloc_count > 0
    /\ aret.layout.size > 0
    /\ allocator.next + align_offset(allocator.next, aret.layout.align)
         + aret.layout.size < allocator.end

-----------------------------------------------------------------------------
(* C15 *)

\* C15: get_buffer returns the ring linearized in write order, oldest first.
\* After writes totalling n bytes, the last min(n, LOG_BUFFER_SIZE) positions
\* of the result are the most recent min(n, LOG_BUFFER_SIZE) bytes written,
\* in the order written, and every earlier position is still zero.
C15_Linearized ==
    lret.op = "get_buffer" =>
        LET m == IF lret.total < LOG_BUFFER_SIZE THEN lret.total
                 ELSE LOG_BUFFER_SIZE
            z == LOG_BUFFER_SIZE - m
        IN  /\ Len(lret.tail) = m
            /\ \A k \in 0..(LOG_BUFFER_SIZE - 1) :
                  lret.buf[k] = IF k < z THEN 0 ELSE lret.tail[k - z + 1]

\* get_buffer after more bytes than the buffer holds were written, the ring
\* having wrapped to a position other than 0, with distinct oldest and
\* newest bytes in the result.
C15_Witness ==
    /\ lret.op = "get_buffer"
    /\ lret.total > LOG_BUFFER_SIZE
    /\ logb.position # 0
    /\ lret.buf[0] # lret.buf[LOG_BUFFER_SIZE - 1]
    /\ lret.buf[0] # 0
    /\ lret.buf # logb.buffer

-----------------------------------------------------------------------------
(* tests::TestVmcsAccess *)

\* The test double: a struct of the two physical values; panic is the
\* message of the assertion or panic! a call has hit, "" while none has.
TestVmcsAccess(cr0, cr4) == [cr0 |-> cr0, cr4 |-> cr4, panic |-> ""]

\* <TestVmcsAccess as VmcsAccess>::write_vmcs64
Test_write_vmcs64(t, vtl, field, mask, value) ==
    IF mask # U64_MAX
    THEN [t EXCEPT !.panic = "assertion failed: mask == !0"]
    ELSE CASE field = "VMX_VMCS_GUEST_CR0" -> [t EXCEPT !.cr0 = value]
           [] field = "VMX_VMCS_GUEST_CR4" -> [t EXCEPT !.cr4 = value]
           [] OTHER -> [t EXCEPT !.panic = "unexpected vmcs field"]

\* <TestVmcsAccess as VmcsAccess>::read_vmcs64: the double after the call
\* (read changes nothing unless it panics).
Test_read_vmcs64(t, vtl, field) ==
    CASE field = "VMX_VMCS_GUEST_CR0" -> t
      [] field = "VMX_VMCS_GUEST_CR4" -> t
      [] OTHER -> [t EXCEPT !.panic = "unexpected vmcs field"]

\* The hardware accesses of one call (its access log from entry k on) issued
\* to the double t instead: the first panic ends the run.
RECURSIVE RunOnDouble(_, _, _)
RunOnDouble(t, log, k) ==
    IF k > Len(log) \/ t.panic # "" THEN t
    ELSE RunOnDouble(
           IF log[k].kind = "read"
           THEN Test_read_vmcs64(t, log[k].vtl, log[k].field)
           ELSE Test_write_vmcs64(t, log[k].vtl, log[k].field,
                                  log[k].mask, log[k].value),
           log, k + 1)

-----------------------------------------------------------------------------
(* C21 *)

\* C21: the hardware access interface is substitutable by the test double.
\* Every access a write or a read issues is one TestVmcsAccess serves: run
\* against the double (cr0: 0, cr4: 0), the call reaches neither the
\* 'unexpected vmcs field' panic nor a failure of the mask == !0 assertion.
C21_Substitutable ==
    ret.op \in {"write", "read"} =>
        RunOnDouble(TestVmcsAccess(Zero, Zero), ret.log, 1).panic = ""

-----------------------------------------------------------------------------
(* C22 *)

\* C22: with no legality mask (allowed_bits = None) write never fails.  Every
\* value is accepted, also one with bits outside guest_owned_mask, and the
\* write postconditions hold for it: shadow_value and the shadow slot are
\* the value, and the guest-owned bits of the physical slot are the value's.
C22_NoMaskAccepts ==
    (ret.op = "write" /\ ~regs[ret.reg].allowed_bits.some)
    => (/\ ret.res = "Ok"
        /\ regs[ret.reg].shadow_value = ret.arg
        /\ vmcs[ShadowSlot(ret.reg)] = ret.arg
        /\ GuestBits(ret.reg, vmcs[PhysSlot(ret.reg)]) =
              GuestBits(ret.reg, ret.arg))

\* A write without a legality mask of a value with host-owned and
\* guest-owned bits, over a physical slot that had to be written.
C22_Witness ==
    /\ ret.op = "write" /\ ~regs[ret.reg].allowed_bits.some
    /\ HostBits(ret.reg, ret.arg) # Zero
    /\ GuestBits(ret.reg, ret.arg) # Zero
    /\ WritesTo(ret.log, PhysSlot(ret.reg)) = 1
    /\ vmcs[PhysSlot(ret.reg)] # ret.arg

-----------------------------------------------------------------------------
(* C23 *)

\* The slots' fields the catalog assigns: physical ones, shadow ones.
C23_PhysicalFields == {physical_vmcs_field(r) : r \in ShadowedRegister}

C23_ShadowFields == {shadow_vmcs_field(r) : r \in ShadowedRegister}

\* C23: the register catalog is total and collision-free.  Each kind has a
\* physical and a shadow field and the four are pairwise distinct, so the
\* unconditional shadow-slot write that ends every accepted write goes to a
\* field that is no physical field and not the other kind's shadow field:
\* it leaves the physical slot as the guest-owned merge made it, and every
\* slot of the other kind as it was.
C23_Catalog ==
    [][(ret'.op = "write" /\ ret'.res = "Ok") =>
         LET i == ret'.reg
             last == ret'.log[Len(ret'.log)]
         IN  /\ C23_PhysicalFields \cup C23_ShadowFields \subseteq VmcsField
             /\ Cardinality(C23_PhysicalFields \cup C23_ShadowFields) =
                   2 * Cardinality(ShadowedRegister)
             /\ last.kind = "write" /\ last.value = ret'.arg
             /\ last.field = shadow_vmcs_field(i[1])
             /\ last.field \notin C23_PhysicalFields
             /\ \A r \in ShadowedRegister \ {i[1]} :
                   last.field # shadow_vmcs_field(r)
             /\ vmcs'[PhysSlot(i)] =
                   BitOr(HostBits(i, vmcs[PhysSlot(i)]), GuestBits(i, ret'.arg))
             /\ \A r \in ShadowedRegister \ {i[1]} : \A t \in GuestVtl :
                   /\ vmcs'[<<t, physical_vmcs_field(r)>>] =
                         vmcs[<<t, physical_vmcs_field(r)>>]
                   /\ vmcs'[<<t, shadow_vmcs_field(r)>>] =
                         vmcs[<<t, shadow_vmcs_field(r)>>]]_vars

\* An accepted write of a value with a host-owned bit that left the
\* physical slot different from the shadow slot, while both slots of the
\* other kind at the same trust level hold non-zero values.
C23_Witness ==
    /\ ret.op = "write" /\ ret.res = "Ok"
    /\ HostBits(ret.reg, ret.arg) # Zero
    /\ vmcs[ShadowSlot(ret.reg)] = ret.arg
    /\ vmcs[PhysSlot(ret.reg)] # ret.arg
    /\ \E r \in ShadowedRegister \ {ret.reg[1]} :
         /\ regs[<<r, ret.reg[2]>>].live
         /\ vmcs[<<ret.reg[2], physical_vmcs_field(r)>>] # Zero
         /\ vmcs[<<ret.reg[2], shadow_vmcs_field(r)>>] # Zero

-----------------------------------------------------------------------------
(* C24 *)

\* The address one past a request served from inner.next, without wrapping:
\* the aligned start plus the requested size.
RequestEnd(inner, layout) ==
    inner.next + align_offset(inner.next, layout.align) + layout.size

\* C24: out of space.  An alloc (in Enabled, on an allocator whose memory
\* range is set) that does not fit in the remaining range returns null and leaves next and alloc_count (the whole
\* allocator) unchanged, and a smaller request that fits, made right after
\* such a null return, succeeds.
C24_OutOfSpace ==
    [][(/\ aret'.op = "alloc" /\ allocator.allow_alloc = "Enabled"
        /\ allocator.start # null_mut) =>
         /\ RequestEnd(allocator, aret'.layout) > allocator.end =>
               /\ aret'.returned /\ aret'.ptr = null_mut
               /\ allocator' = allocator
         /\ (/\ aret.op = "alloc" /\ aret.returned /\ aret.ptr = null_mut
             /\ aret'.layout.size < aret.layout.size
             /\ RequestEnd(allocator, aret'.layout) <= allocator.end)
            => aret'.ptr # null_mut]_vars

-----------------------------------------------------------------------------
(* C26 *)

\* C26: alloc returns null only when the request does not fit.  Whenever the
\* aligned start plus the requested size is at most end, also when it is
\* exactly end, alloc in the Enabled state (on an allocator whose memory
\* range is set) returns a non-null pointer.
C26_NullOnlyIfNoFit ==
    [][(/\ aret'.op = "alloc" /\ allocator.allow_alloc = "Enabled"
        /\ allocator.start # null_mut
        /\ RequestEnd(allocator, aret'.layout) <= allocator.end)
       => (aret'.returned /\ aret'.ptr # null_mut)]_vars

-----------------------------------------------------------------------------
(* C25 *)

\* The addresses of block b: [ptr, ptr + size).
BlockBytes(b) == {a \in 0..(PtrMod - 1) : b.ptr <= a /\ a < b.ptr + b.size}

\* C25: blocks never overlap.  Every non-null pointer alloc has returned is
\* aligned as requested, its block [ptr, ptr + size) lies inside
\* [start, end) and is disjoint from every block returned earlier;
\* start <= next <= end holds throughout, alloc_count is the number of
\* non-null returns, and dealloc changes no allocator state.
C25_NoOverlap ==
    /\ [](/\ allocator.start <= allocator.next
          /\ allocator.next <= allocator.end
          /\ allocator.alloc_count = Len(aret.blocks)
          /\ \A k \in 1..Len(aret.blocks) :
               LET b == aret.blocks[k]
               IN  /\ b.ptr # null_mut
                   /\ b.ptr % b.align = 0
                   /\ allocator.start <= b.ptr
                   /\ b.ptr + b.size <= allocator.end
                   /\ \A j \in 1..(k - 1) :
                         BlockBytes(aret.blocks[j]) \cap BlockBytes(b) = {})
    /\ [][aret'.op = "dealloc" => allocator' = allocator]_vars

-----------------------------------------------------------------------------
(* C27 *)

\* C27: the position invariant.  After any sequence of write_str calls,
\* position is in [0, LOG_BUFFER_SIZE) and is the total number of bytes
\* written so far modulo LOG_BUFFER_SIZE (and get_position returns it); a
\* write of the empty string changes neither position nor buffer, and
\* write_str always returns Ok.
C27_Position ==
    /\ [](/\ logb.position \in 0..(LOG_BUFFER_SIZE - 1)
          /\ logb.position = lret.total % LOG_BUFFER_SIZE
          /\ lret.op = "get_position" => lret.pos = lret.total % LOG_BUFFER_SIZE
          /\ lret.op = "write_str" => lret.res = "Ok")
    /\ [][(lret'.op = "write_str" /\ lret'.len = 0) => logb' = logb]_vars

\* The empty string has been written to a ring that has wrapped and stands
\* at a position other than 0.
C27_Witness ==
    /\ lret.op = "write_str" /\ lret.len = 0 /\ lret.res = "Ok"
    /\ lret.total > LOG_BUFFER_SIZE
    /\ logb.position # 0
    /\ logb.buffer # LogBuffer_new.buffer

-----------------------------------------------------------------------------
(* C28 *)

\* C28: the locked-memory mapping stays valid.  Whenever Mapping::new(len)
\* succeeds through the fallback (non-hugetlb) path, every page of the
\* returned region [addr, addr + len) is mapped, and every page of the
\* over-allocated region [raw, raw + larger_len) outside the returned
\* region (the unaligned head and the tail) has been unmapped.
C28_MappingValid ==
    (mm.op = "new" /\ mm.res = "Ok" /\ ~mm.hugetlb)
    => (/\ PageRange(mm.addr, mm.len) \subseteq mm.mapped
        /\ (PageRange(mm.raw, mm.larger_len) \ PageRange(mm.addr, mm.len))
              \cap mm.mapped = {})

=============================================================================
